---- MODULE Spec2Model ----
(***************************************************************************)
(* zustand-crud-registry: the store registry, the configuration validator, *)
(* the loading-state tracker and the action dispatcher (useCrud).          *)
(*                                                                         *)
(* JavaScript values are modelled as TLA+ records so that any two of them  *)
(* can be compared: null and undefined are tagged records, a number that   *)
(* travels as an `any` value is boxed (Num), an array is [items |-> seq],  *)
(* an object is a record whose DOMAIN is the set of its own keys.          *)
(***************************************************************************)
EXTENDS Integers, Sequences, FiniteSets, TLC

VARIABLES
  storeKey,       \* store.key: the entity key of the store the dispatcher is given
  store,          \* the zustand state of the store: record, count, loadingState, state
  storeRegistry,  \* createStoreRegistry's closure: entity key -> store handle
  returned,       \* the value returned by the last getOrCreateStore call
  calls,          \* the invocations of action callables: slot -> activation of the async function
  ncalls,         \* number of invocations made so far
  lastOp          \* the last operation invoked from outside, with its arguments

vars == <<storeKey, store, storeRegistry, returned, calls, ncalls, lastOp>>

(***************************************************************************)
(* Bounds of the model.                                                    *)
(***************************************************************************)
MaxCalls == 2     \* invocations of action callables in one behaviour
MaxSeq == 2       \* direct loading-state writes stop once a sequence reaches this
MaxCount == 2     \* direct setInstance / setCount stop once count reaches this

(***************************************************************************)
(* JavaScript values.                                                      *)
(***************************************************************************)
Null == [null |-> TRUE]
Undefined == [undefined |-> TRUE]
Num(n) == [num |-> n]
EmptyObject == <<>>
Nullish(v) == v = Null \/ v = Undefined

\* { ...a, ...b }
Spread(a, b) == [f \in (DOMAIN a) \cup (DOMAIN b) |-> IF f \in DOMAIN b THEN b[f] ELSE a[f]]

\* the property key a number is converted to when it indexes an object
KeyOf(n) == CASE n = 1 -> "1" [] n = 2 -> "2" [] n = 3 -> "3" [] OTHER -> "0"

\* o[f] where the value, when present, is a number: boxed, or undefined
Prop(o, f) == IF f \in DOMAIN o THEN Num(o[f]) ELSE Undefined

(***************************************************************************)
(* Entity records (TestUser of the tests: id, name, email).                *)
(***************************************************************************)
U1 == [id |-> 1, name |-> "A", email |-> "a@x"]
U1b == [id |-> 1, name |-> "B"]
U2 == [id |-> 2, name |-> "A"]
Users == {U1, U1b, U2}
ErrorValues == {[error |-> "E1"]}

\* records of a store whose routes address a record by `slug` and whose Collection is
\* keyed by `id`
N1 == [id |-> 1, slug |-> 3, name |-> "A"]
N1b == [id |-> 1, slug |-> 3, name |-> "B"]
N2 == [id |-> 2, slug |-> 2, name |-> "A"]
\* what a success callback that throws raises
CallbackError == [error |-> "thrown by callback"]

(***************************************************************************)
(* loadingState.ts                                                         *)
(***************************************************************************)
defaultLoadingState ==
  [isLoading |-> FALSE, error |-> Null, response |-> Undefined, id |-> Undefined, sequence |-> 0]

\* setLoadingState without the increment of sequence
setLoadingState_keepSequence(ls, key, value) ==
  (key :> Spread(Spread(defaultLoadingState,
                        IF key \in DOMAIN ls THEN ls[key] ELSE EmptyObject),
                 value)) @@ ls

\* the store's setLoadingState(key, value): the new loadingState map
setLoadingState(ls, key, value) ==
  (key :> Spread(Spread(defaultLoadingState,
                        IF key \in DOMAIN ls
                          THEN [ls[key] EXCEPT !.sequence = @ + 1]
                          ELSE EmptyObject),
                 value)) @@ ls

getLoadingState(ls, action) ==
  Spread(defaultLoadingState, IF action \in DOMAIN ls THEN ls[action] ELSE EmptyObject)

initiateAction(ls, action, extra) ==
  setLoadingState(ls, action,
    Spread([isLoading |-> TRUE, error |-> Null, response |-> Null, id |-> Null], extra))

\* response?.id || null
ResponseId(response) ==
  IF Nullish(response) \/ "id" \notin DOMAIN response \/ response.id = 0
    THEN Null ELSE Num(response.id)

finishAction(ls, action, response) ==
  setLoadingState(ls, action,
    [isLoading |-> FALSE, error |-> Null, id |-> ResponseId(response), response |-> response])

\* actionError that leaves the response of the entry as it is
actionError_keepResponse(ls, action, error) ==
  setLoadingState(ls, action, [isLoading |-> FALSE, error |-> error])

actionError(ls, action, error) ==
  setLoadingState(ls, action, [isLoading |-> FALSE, error |-> error, response |-> Null])

(***************************************************************************)
(* createStoreRegistry: the setters of one store.  s is the zustand state  *)
(* [record, count, loadingState, state]; set(partial) is Spread(s, partial)*)
(***************************************************************************)
\* item[byKey] as a property key
ItemKey(item, byKey) == IF byKey \in DOMAIN item THEN KeyOf(item[byKey]) ELSE "undefined"

\* Object.fromEntries(list.map((item) => [item[byKey], item])): a later entry wins
fromEntries(list, byKey) ==
  [k \in {ItemKey(list[i], byKey) : i \in DOMAIN list} |->
     LET last == CHOOSE i \in DOMAIN list :
                   /\ ItemKey(list[i], byKey) = k
                   /\ \A j \in DOMAIN list : ItemKey(list[j], byKey) = k => j <= i
     IN list[last]]

\* setList that keeps the records already stored
setList_merge(s, byKey, list) ==
  Spread(s, [record |-> fromEntries(list, byKey)
                          @@ (IF s.record = Null THEN EmptyObject ELSE s.record)])

\* setList that sets count to the length of the list as well
setList_counts(s, byKey, list) ==
  Spread(s, [record |-> fromEntries(list, byKey), count |-> Len(list)])

setList(s, byKey, list) == Spread(s, [record |-> fromEntries(list, byKey)])

RECURSIVE patchRecord(_, _, _)
patchRecord(record, byKey, list) ==
  IF list = <<>> THEN record
  ELSE LET item == Head(list)
           id == ItemKey(item, byKey)
       IN patchRecord(IF id \in DOMAIN record
                        THEN (id :> Spread(record[id], item)) @@ record
                        ELSE record,
                      byKey, Tail(list))

\* patchList that assigns each partial to its key
patchList_assign(s, byKey, list) ==
  IF s.record = Null THEN s
  ELSE Spread(s, [record |-> fromEntries(list, byKey) @@ s.record])

patchList(s, byKey, list) ==
  IF s.record = Null THEN s
  ELSE Spread(s, [record |-> patchRecord(s.record, byKey, list)])

\* setInstance with an unconditional increment of count
setInstance_alwaysCount(s, byKey, instance) ==
  Spread(s, [record |-> (ItemKey(instance, byKey) :> instance)
                          @@ (IF s.record = Null THEN EmptyObject ELSE s.record),
             count |-> s.count + 1])

setInstance(s, byKey, instance) ==
  LET key == ItemKey(instance, byKey)
      present == s.record # Null /\ key \in DOMAIN s.record
  IN Spread(s, [record |-> (key :> instance)
                             @@ (IF s.record = Null THEN EmptyObject ELSE s.record),
                count |-> s.count + (IF present THEN 0 ELSE 1)])

\* updateInstance that stores, under the instance's key, a record already stored
updateInstance_copiesStored(s, byKey, instance) ==
  IF s.record = Null THEN s
  ELSE Spread(s, [record |->
         (ItemKey(instance, byKey) :>
            (IF DOMAIN s.record = {} THEN instance
             ELSE s.record[CHOOSE k \in DOMAIN s.record : TRUE]))
         @@ s.record])

updateInstance(s, byKey, instance) ==
  IF s.record = Null THEN s
  ELSE Spread(s, [record |->
         (ItemKey(instance, byKey) :>
            Spread(IF byKey \in DOMAIN s.record THEN s.record[byKey] ELSE EmptyObject,
                   instance))
         @@ s.record])

\* deleteInstance that decrements count before it looks at the record
deleteInstance_countFirst(s, byKey, instance) ==
  LET counted == Spread(s, [count |-> IF s.count > 0 THEN s.count - 1 ELSE 0])
  IN IF s.record = Null THEN counted
     ELSE Spread(counted, [record |-> [k \in (DOMAIN s.record) \ {ItemKey(instance, byKey)}
                                        |-> s.record[k]]])

deleteInstance(s, byKey, instance) ==
  IF s.record = Null THEN s
  ELSE LET key == ItemKey(instance, byKey)
       IN Spread(s, [record |-> [k \in (DOMAIN s.record) \ {key} |-> s.record[k]],
                     count |-> IF s.count > 0 THEN s.count - 1 ELSE 0])

setCount(s, count) == Spread(s, [count |-> count])

\* setState that merges the objects one level further down as well
setState_deep(s, subState) ==
  LET old == IF Nullish(s.state) THEN EmptyObject ELSE s.state
  IN Spread(s, [state |->
       [k \in (DOMAIN old) \cup (DOMAIN subState) |->
          IF k \notin DOMAIN subState THEN old[k]
          ELSE IF k \in DOMAIN old /\ k = "sort" THEN Spread(old[k], subState[k])
          ELSE subState[k]]])

setState(s, subState) ==
  Spread(s, [state |-> Spread(IF Nullish(s.state) THEN EmptyObject ELSE s.state, subState)])

storeSetLoadingState(s, key, value) ==
  Spread(s, [loadingState |-> setLoadingState(s.loadingState, key, value)])

(***************************************************************************)
(* config.ts                                                               *)
(***************************************************************************)
JsTrue == [bool |-> TRUE]
JsFalse == [bool |-> FALSE]
Fn(name) == [fn |-> name]
StrRoute(tokens) == [str |-> tokens]
IsFunction(v) == "fn" \in DOMAIN v
\* typeof v === 'object' for a value that is not null
IsObject(v) == ~Nullish(v) /\ "bool" \notin DOMAIN v /\ "num" \notin DOMAIN v /\ ~IsFunction(v)
\* truthiness that takes a missing entry for true
Truthy_missingIsTrue(v) == v # JsFalse
\* truthiness that nothing has
Truthy_never(v) == FALSE
Truthy(v) == ~Nullish(v) /\ v # JsFalse /\ v # Num(0)
StandardActions == {"get", "getList", "create", "update", "delete"}

\* a string route becomes a closure over (route, id); a function route is returned as it is
\* a detail route that is left undefined
getDetailRoute_undefined(route, id) == Undefined
\* a detail route that is the base route
getDetailRoute_base(route, id) == route
getDetailRoute(route, id) ==
  IF IsFunction(route) THEN route
  ELSE [fn |-> "detailRoute", route |-> route, id |-> id]

validateConfig(config) ==
  LET id == IF "id" \in DOMAIN config THEN config.id ELSE "id"
      parseIdToInt == IF "parseIdToInt" \in DOMAIN config THEN config.parseIdToInt ELSE FALSE
      byKey == IF "byKey" \in DOMAIN config THEN config.byKey ELSE id
      state == IF "state" \in DOMAIN config THEN config.state ELSE EmptyObject
      route == IF "route" \in DOMAIN config THEN config.route ELSE Undefined
      customActions == IF "customActions" \in DOMAIN config
                         THEN config.customActions ELSE EmptyObject
      onError == IF "onError" \in DOMAIN config THEN config.onError ELSE Null
      includeRecord == IF "includeRecord" \in DOMAIN config THEN config.includeRecord ELSE FALSE
      actions == IF "actions" \notin DOMAIN config
                   THEN [get |-> JsTrue, getList |-> JsTrue, create |-> JsTrue,
                         update |-> JsTrue, delete |-> JsTrue, select |-> JsFalse]
                   ELSE config.actions
      detailRoute == getDetailRoute(route, id)
      setting(name) == IF name \in DOMAIN actions THEN actions[name] ELSE Undefined
      override(name) == IF IsObject(setting(name)) THEN setting(name) ELSE EmptyObject
      defaults(name) ==
        CASE name = "getList" ->
               [method |-> "get", prepare |-> Null, callback |-> Null, onError |-> onError,
                prepareResponse |-> Null, route |-> route]
          [] name = "create" ->
               [method |-> "post", prepare |-> Null, callback |-> Null, onError |-> onError,
                prepareResponse |-> Null, route |-> route]
          [] name = "get" ->
               [method |-> "get", prepare |-> Null, callback |-> Null, onError |-> onError,
                prepareResponse |-> Null, route |-> detailRoute]
          [] name = "update" ->
               [method |-> "patch", prepare |-> Null, callback |-> Null, onError |-> onError,
                prepareResponse |-> Null, route |-> detailRoute]
          [] name = "delete" ->
               [method |-> "delete", prepare |-> Null, callback |-> Null, onError |-> onError,
                route |-> detailRoute]
      select == IF ~Truthy(setting("select")) THEN JsFalse
                ELSE IF setting("select") = [sel |-> "multiple"]
                       THEN [sel |-> "multiple"] ELSE [sel |-> "single"]
      custom(action) ==
        Spread([f \in (DOMAIN action) \ {"method", "onError", "route"} |-> action[f]],
               [route |-> IF "route" \in DOMAIN action THEN action.route ELSE Undefined,
                onError |-> IF "onError" \in DOMAIN action /\ Truthy(action.onError)
                              THEN action.onError ELSE onError,
                method |-> IF "method" \in DOMAIN action THEN action.method ELSE "get"])
  IN [id |-> id,
      byKey |-> byKey,
      parseIdToInt |-> parseIdToInt,
      state |-> state,
      axios |-> IF "axios" \in DOMAIN config THEN config.axios ELSE Undefined,
      onError |-> onError,
      includeRecord |-> includeRecord,
      actions |-> [name \in {n \in StandardActions : Truthy(setting(n))} \cup {"select"} |->
                     IF name = "select" THEN select
                     ELSE Spread(defaults(name), override(name))],
      customActions |-> [key \in DOMAIN customActions |-> custom(customActions[key])],
      route |-> route]

(***************************************************************************)
(* The "users" store of the dispatcher specification and its inputs.       *)
(***************************************************************************)
UsersConfig ==
  [axios |-> Fn("axios"),
   route |-> StrRoute(<<"/", "users">>),
   onError |-> Fn("onError"),
   state |-> [filter |-> "all"],
   actions |-> [get |-> JsTrue, getList |-> [callback |-> Fn("onList")], create |-> JsTrue,
                update |-> JsTrue, delete |-> JsTrue],
   customActions |-> [move |-> [route |-> StrRoute(<<"/", "users", "/", "move">>),
                                method |-> "post"]]]

\* a store with a configured id field, a success callback that throws and two custom
\* actions, one of them named "custom"
NotesConfig ==
  [axios |-> Fn("axios"),
   route |-> StrRoute(<<"/", "notes">>),
   id |-> "slug",
   byKey |-> "id",
   actions |-> [getList |-> [callback |-> Fn("throwingCallback")], update |-> JsTrue],
   customActions |-> [custom |-> [route |-> StrRoute(<<"/", "notes", "/", "sync">>),
                                  method |-> "post"],
                      move |-> [route |-> StrRoute(<<"/", "notes", "/", "move">>),
                                method |-> "post"]]]

\* a store whose route function of get and whose request-body transform of create throw
TasksConfig ==
  [axios |-> Fn("axios"),
   route |-> StrRoute(<<"/", "tasks">>),
   actions |-> [getList |-> JsTrue,
                get |-> [route |-> Fn("throwingRoute")],
                create |-> [prepare |-> Fn("throwingPrepare")],
                update |-> JsTrue]]

\* the validated configurations attached to the stores
UsersValidated == validateConfig(UsersConfig)
NotesValidated == validateConfig(NotesConfig)
TasksValidated == validateConfig(TasksConfig)

\* const { axios, actions: configActions, customActions } = store.config
config ==
  IF storeKey = "notes" THEN NotesValidated
  ELSE IF storeKey = "tasks" THEN TasksValidated
  ELSE UsersValidated

\* the zustand state of a store just created from rawConfig
InitialStoreOf(rawConfig) ==
  [record |-> Null, count |-> 0, loadingState |-> EmptyObject,
   state |-> IF "state" \in DOMAIN rawConfig THEN rawConfig.state ELSE Undefined]

InitialStore == InitialStoreOf(UsersConfig)

Slots == 1..MaxCalls
TypeError == [error |-> "TypeError"]
Array(seq) == [items |-> seq]
Pending == [state |-> "pending", value |-> Undefined]
Fulfilled(v) == [state |-> "fulfilled", value |-> v]
Rejected(e) == [state |-> "rejected", value |-> e]
NoArgs == [callback |-> FALSE, onError |-> FALSE, sideEffects |-> FALSE]
AllArgs == [callback |-> TRUE, onError |-> TRUE, sideEffects |-> TRUE]
\* a function assigned to the callable's `onResponse` property before the call
\* (README: roles.move.onResponse = ...), and no other handler
OnResponseArgs == [callback |-> FALSE, onError |-> FALSE, sideEffects |-> FALSE,
                   onResponse |-> TRUE]
CallArgs == IF storeKey = "notes" THEN {NoArgs, AllArgs, OnResponseArgs} ELSE {NoArgs, AllArgs}

\* the payloads a caller passes, per action
Payloads(actionKey) ==
  CASE actionKey = "getList" -> {Undefined}
    [] actionKey = "custom" -> {Undefined}
    [] storeKey = "notes" -> {N1b}
    [] actionKey = "create" -> {U2}
    [] actionKey = "get" -> {U1, Null}
    [] actionKey = "update" -> {U1b}
    [] OTHER -> {U1b, U2}

\* response.data of a resolved transport call, per action
Responses(actionKey) ==
  CASE storeKey = "notes" /\ actionKey = "getList" -> {Array(<<N1>>)}
    [] storeKey = "notes" /\ actionKey = "update" -> {N1b, N2}
    [] actionKey = "getList" -> {Array(<<U1, U2>>), [results |-> <<U1b>>, count |-> 10]}
    [] actionKey = "delete" -> {Null}
    [] actionKey = "custom" -> {[ok |-> TRUE]}
    [] actionKey = "update" -> {U1b, U2}
    [] OTHER -> {U1, U2}

IdleCall ==
  [pc |-> "idle", actionKey |-> "", customAction |-> "", data |-> Undefined, args |-> NoArgs,
   request |-> Undefined, response |-> Undefined, error |-> Undefined, log |-> <<>>,
   result |-> Pending]

(***************************************************************************)
(* useCrud.ts: getAxiosConfig and getAction.                               *)
(***************************************************************************)
\* a detail route that puts a slash before the key value whatever the base ends with
ApplyRoute_slashBefore(route, data) ==
  IF route.fn = "detailRoute" /\ data # Null
    THEN [threw |-> FALSE,
          url |-> route.route.str \o <<"/">>
                    \o <<IF "num" \in DOMAIN data THEN KeyOf(data.num)
                         ELSE IF route.id \in DOMAIN data THEN KeyOf(data[route.id])
                         ELSE "undefined">>]
    ELSE [threw |-> route.fn \in {"detailRoute", "throwingRoute"}, url |-> <<route.fn>>]

\* route(data, { args, params }) for a function route: the url, or a throw
ApplyRoute(route, data) ==
  IF route.fn = "detailRoute"
    THEN IF data = Null
           THEN [threw |-> TRUE]      \* typeof null === 'object', then null[id]
           ELSE LET value == IF IsObject(data)
                               THEN IF route.id \in DOMAIN data
                                      THEN KeyOf(data[route.id]) ELSE "undefined"
                               ELSE IF "num" \in DOMAIN data THEN KeyOf(data.num)
                               ELSE "undefined"
                    base == route.route.str
                    slash == Len(base) > 0 /\ base[Len(base)] = "/"
                IN [threw |-> FALSE,
                    url |-> base \o (IF slash THEN <<>> ELSE <<"/">>) \o <<value>>
                                 \o (IF slash THEN <<"/">> ELSE <<>>)]
    ELSE IF route.fn = "throwingRoute" THEN [threw |-> TRUE]
    ELSE [threw |-> FALSE, url |-> <<route.fn>>]

\* getAxiosConfig that sends the payload as it is
getAxiosConfig_rawBody(method, route, params, data, prepare) ==
  LET url == IF IsFunction(route) THEN ApplyRoute(route, data)
             ELSE [threw |-> FALSE, url |-> route.str]
  IN IF url.threw THEN [threw |-> TRUE]
     ELSE Spread([threw |-> FALSE, method |-> method, url |-> url.url, params |-> params],
                 IF Truthy(data) THEN [data |-> data] ELSE EmptyObject)

\* getAxiosConfig that takes undefined for what a throwing function would have returned
getAxiosConfig_noThrow(method, route, params, data, prepare) ==
  [threw |-> FALSE, method |-> method, url |-> <<"undefined">>, params |-> params]

getAxiosConfig(method, route, params, data, prepare) ==
  LET url == IF IsFunction(route) THEN ApplyRoute(route, data)
             ELSE [threw |-> FALSE, url |-> route.str]
  IN IF url.threw THEN [threw |-> TRUE]
     ELSE IF Truthy(data) /\ IsFunction(prepare) /\ prepare.fn = "throwingPrepare"
       THEN [threw |-> TRUE]
     ELSE Spread([threw |-> FALSE, method |-> method, url |-> url.url, params |-> params],
                 IF Truthy(data)
                   THEN [data |-> IF IsFunction(prepare)
                                    THEN [prepared |-> data, by |-> prepare.fn,
                                          params |-> params]
                                    ELSE data]
                   ELSE EmptyObject)

\* const loadingStateKey = actionKey === 'custom' && customAction ? customAction : actionKey
LoadingStateKey(actionKey, customAction) ==
  IF actionKey = "custom" /\ customAction # "" THEN customAction ELSE actionKey

\* the entry the single-flight guard reads: getLoadingState(store, actionKey)
GuardKey(actionKey, customAction) == actionKey

\* the entry the catch block writes: actionError(store, actionKey, error)
ErrorKey(actionKey, customAction) == actionKey

Descriptor(actionKey, customAction) ==
  IF actionKey = "custom" /\ customAction # ""
    THEN config.customActions[customAction]
    ELSE config.actions[actionKey]

\* the callables useCrud exposes: <<actionKey, customAction>>
CallablesOf(validated) ==
  {<<a, "">> : a \in (DOMAIN validated.actions) \cap StandardActions}
    \cup {<<"custom", c>> : c \in DOMAIN validated.customActions}
UsersCallables == CallablesOf(UsersValidated)
NotesCallables == CallablesOf(NotesValidated)
TasksCallables == CallablesOf(TasksValidated)
Callables ==
  IF storeKey = "notes" THEN NotesCallables
  ELSE IF storeKey = "tasks" THEN TasksCallables
  ELSE UsersCallables

\* what is left of an activation once the async function has returned: which callable
\* was invoked, the handler invocations it made and the settled promise
Returned(call, log, result) ==
  [IdleCall EXCEPT !.pc = "done", !.actionKey = call.actionKey,
                   !.customAction = call.customAction, !.log = log, !.result = result]

\* callIfFunc(func, arg): the invocation it makes, if any
callIfFunc(func, arg) == IF IsFunction(func) THEN <<[fn |-> func.fn, arg |-> arg]>> ELSE <<>>

\* a handler the call site passes (or a hook assigned to the callable), when present
Given(present, name) == IF present THEN Fn(name) ELSE Undefined

Field(o, f) == IF f \in DOMAIN o THEN o[f] ELSE Undefined

\* const results = Array.isArray(response.data) ? response.data : response.data.results
Results(data) == IF "items" \in DOMAIN data THEN data.items ELSE data.results

\* const count = response.data.count ?? results.length
ResultCount(data) == IF "count" \in DOMAIN data THEN data.count ELSE Len(Results(data))

\* responseData left as the transport returned it
ResponseData_raw(actionKey, data) == data

\* responseData, the value handed to the callbacks and returned
ResponseData(actionKey, data) == IF actionKey = "getList" THEN Array(Results(data)) ELSE data

\* a handler that throws when it is invoked
Throws(func) == IsFunction(func) /\ func.fn = "throwingCallback"

\* callIfFunc over the handlers in order, up to and including the first that throws
RECURSIVE Invocations(_, _)
Invocations(funcs, arg) ==
  IF funcs = <<>> THEN <<>>
  ELSE callIfFunc(Head(funcs), arg)
         \o (IF Throws(Head(funcs)) THEN <<>> ELSE Invocations(Tail(funcs), arg))

\* a continuation that waits in the microtask queue
MicrotaskPcs == {"initiated", "setCount", "finish", "callbacks", "failed"}
MicrotaskPending == \E c \in Slots : calls[c].pc \in MicrotaskPcs

Init ==
  /\ storeKey = "users"
  /\ store = InitialStore
  /\ storeRegistry = EmptyObject
  /\ returned = Undefined
  /\ calls = [c \in Slots |-> IdleCall]
  /\ ncalls = 0
  /\ lastOp = [op |-> "none"]

\* The synchronous part of the async function: guard, request building, initiateAction.
Call(c, actionKey, customAction, data, args) ==
  /\ c = ncalls + 1
  /\ ncalls < MaxCalls
  /\ ncalls' = ncalls + 1
  /\ LET d == Descriptor(actionKey, customAction)
         isLoading == getLoadingState(store.loadingState,
                                      GuardKey(actionKey, customAction)).isLoading
         request == getAxiosConfig(d.method, d.route, Undefined,
                                   IF actionKey = "getList" THEN Undefined ELSE data,
                                   Field(d, "prepare"))
         id == IF Nullish(data) THEN Undefined ELSE Prop(data, "id")
         started == [IdleCall EXCEPT !.actionKey = actionKey, !.customAction = customAction,
                                     !.data = data, !.args = args]
     IN IF isLoading
          THEN /\ calls' = [calls EXCEPT ![c] = Returned(started, <<>>, Fulfilled(Undefined))]
               /\ UNCHANGED store
          ELSE IF request.threw
            THEN /\ calls' = [calls EXCEPT ![c] = Returned(started, <<>>, Rejected(TypeError))]
                 /\ UNCHANGED store
            ELSE /\ store' = [store EXCEPT !.loadingState =
                               initiateAction(@, LoadingStateKey(actionKey, customAction),
                                              IF actionKey \in {"update", "delete"}
                                                THEN [id |-> id] ELSE EmptyObject)]
                 /\ calls' = [calls EXCEPT ![c] = [started EXCEPT !.pc = "initiated",
                                                                 !.request = request]]
  /\ UNCHANGED <<storeKey, storeRegistry, returned, lastOp>>

\* after `await initiateAction(...)`: axios(mergedAxiosConfig) is called
Request(c) ==
  /\ calls[c].pc = "initiated"
  /\ calls' = [calls EXCEPT ![c].pc = "requesting"]
  /\ UNCHANGED <<storeKey, store, storeRegistry, returned, ncalls, lastOp>>

\* the transport resolves; the function goes on to `await sleep(500)`
Resolve(c, data) ==
  /\ calls[c].pc = "requesting"
  /\ calls' = [calls EXCEPT ![c].pc = "sleeping", ![c].response = data]
  /\ UNCHANGED <<storeKey, store, storeRegistry, returned, ncalls, lastOp>>

\* the transport rejects: the catch block up to `await actionError(...)`
Reject(c, error) ==
  /\ calls[c].pc = "requesting"
  /\ store' = [store EXCEPT !.loadingState =
                  actionError(@, ErrorKey(calls[c].actionKey, calls[c].customAction), error)]
  /\ calls' = [calls EXCEPT ![c].pc = "failed", ![c].error = error]
  /\ UNCHANGED <<storeKey, storeRegistry, returned, ncalls, lastOp>>

\* TimerFire in which a custom action upserts its response as `get` does
TimerFire_customUpserts(c) ==
  /\ calls[c].pc = "sleeping"
  /\ ~MicrotaskPending
  /\ LET a == calls[c].actionKey
         data == calls[c].response
         byKey == config.byKey
     IN CASE a \in {"get", "create", "custom"} ->
               /\ store' = setInstance(store, byKey, data)
               /\ calls' = [calls EXCEPT ![c].pc = "finish"]
          [] a = "getList" ->
               /\ store' = setList(store, byKey, Results(data))
               /\ calls' = [calls EXCEPT ![c].pc = "setCount"]
          [] a = "update" ->
               /\ store' = updateInstance(store, byKey, data)
               /\ calls' = [calls EXCEPT ![c].pc = "finish"]
          [] a = "delete" ->
               /\ store' = deleteInstance(store, byKey, calls[c].data)
               /\ calls' = [calls EXCEPT ![c].pc = "finish"]
  /\ UNCHANGED <<storeKey, storeRegistry, returned, ncalls, lastOp>>

\* the timer of sleep(500) fires (a task: it runs once no microtask is waiting);
\* the function runs up to the `await` of its first store write
TimerFire(c) ==
  /\ calls[c].pc = "sleeping"
  /\ ~MicrotaskPending
  /\ LET a == calls[c].actionKey
         data == calls[c].response
         byKey == config.byKey
     IN CASE a = "get" ->
               /\ store' = setInstance(store, byKey, data)
               /\ calls' = [calls EXCEPT ![c].pc = "finish"]
          [] a = "getList" ->
               /\ store' = setList(store, byKey, Results(data))
               /\ calls' = [calls EXCEPT ![c].pc = "setCount"]
          [] a = "create" ->
               /\ store' = setInstance(store, byKey, data)
               /\ calls' = [calls EXCEPT ![c].pc = "finish"]
          [] a = "update" ->
               /\ store' = updateInstance(store, byKey, data)
               /\ calls' = [calls EXCEPT ![c].pc = "finish"]
          [] a = "delete" ->
               /\ store' = deleteInstance(store, byKey, calls[c].data)
               /\ calls' = [calls EXCEPT ![c].pc = "finish"]
          [] OTHER ->
               /\ store' = [store EXCEPT !.loadingState =
                              finishAction(@, LoadingStateKey(a, calls[c].customAction), Null)]
               /\ calls' = [calls EXCEPT ![c].pc = "callbacks"]
  /\ UNCHANGED <<storeKey, storeRegistry, returned, ncalls, lastOp>>

\* getList, after `await state.setList(results)`: state.setCount(count)
SetCount(c) ==
  /\ calls[c].pc = "setCount"
  /\ store' = setCount(store, ResultCount(calls[c].response))
  /\ calls' = [calls EXCEPT ![c].pc = "finish"]
  /\ UNCHANGED <<storeKey, storeRegistry, returned, ncalls, lastOp>>

\* after the last store write: finishAction(store, loadingStateKey)
Finish(c) ==
  /\ calls[c].pc = "finish"
  /\ store' = [store EXCEPT !.loadingState =
                  finishAction(@, LoadingStateKey(calls[c].actionKey, calls[c].customAction),
                               Null)]
  /\ calls' = [calls EXCEPT ![c].pc = "callbacks"]
  /\ UNCHANGED <<storeKey, storeRegistry, returned, ncalls, lastOp>>

\* after `await finishAction(...)`: the three callbacks, then return responseData; a
\* callback that throws lands in the catch block, up to `await actionError(...)`
Callbacks(c) ==
  /\ calls[c].pc = "callbacks"
  /\ LET d == Descriptor(calls[c].actionKey, calls[c].customAction)
         responseData == ResponseData(calls[c].actionKey, calls[c].response)
         handlers == <<Given(calls[c].args.sideEffects, "sideEffects"),
                       Field(d, "callback"),
                       Given(calls[c].args.callback, "callback")>>
         log == Invocations(handlers, responseData)
     IN IF \E i \in DOMAIN handlers : Throws(handlers[i])
          THEN /\ store' = [store EXCEPT !.loadingState =
                              actionError(@, ErrorKey(calls[c].actionKey, calls[c].customAction),
                                          CallbackError)]
               /\ calls' = [calls EXCEPT ![c].pc = "failed", ![c].error = CallbackError,
                                         ![c].log = log]
          ELSE /\ calls' = [calls EXCEPT ![c] = Returned(calls[c], log, Fulfilled(responseData))]
               /\ UNCHANGED store
  /\ UNCHANGED <<storeKey, storeRegistry, returned, ncalls, lastOp>>

\* after `await actionError(...)`: the two error handlers, then return
ErrorHandlers(c) ==
  /\ calls[c].pc = "failed"
  /\ LET d == Descriptor(calls[c].actionKey, calls[c].customAction)
     IN calls' = [calls EXCEPT ![c] = Returned(calls[c],
          calls[c].log
            \o callIfFunc(Field(d, "onError"), calls[c].error)
            \o callIfFunc(Given(calls[c].args.onError, "callerOnError"), calls[c].error),
          Fulfilled(Undefined))]
  /\ UNCHANGED <<storeKey, store, storeRegistry, returned, ncalls, lastOp>>

Next ==
  \E c \in Slots :
    \/ \E k \in Callables : \E data \in Payloads(k[1]) : \E args \in CallArgs :
         Call(c, k[1], k[2], data, args)
    \/ Request(c)
    \/ \E data \in Responses(calls[c].actionKey) : Resolve(c, data)
    \/ \E error \in ErrorValues : Reject(c, error)
    \/ TimerFire(c)
    \/ SetCount(c)
    \/ Finish(c)
    \/ Callbacks(c)
    \/ ErrorHandlers(c)

Spec == Init /\ [][Next]_vars

\* the dispatcher over the store created from NotesConfig
InitNotes ==
  /\ storeKey = "notes"
  /\ store = InitialStoreOf(NotesConfig)
  /\ storeRegistry = EmptyObject
  /\ returned = Undefined
  /\ calls = [c \in Slots |-> IdleCall]
  /\ ncalls = 0
  /\ lastOp = [op |-> "none"]

SpecNotes == InitNotes /\ [][Next]_vars

InitTasks ==
  /\ storeKey = "tasks"
  /\ store = InitialStoreOf(TasksConfig)
  /\ storeRegistry = EmptyObject
  /\ returned = Undefined
  /\ calls = [c \in Slots |-> IdleCall]
  /\ ncalls = 0
  /\ lastOp = [op |-> "none"]

SpecTasks == InitTasks /\ [][Next]_vars

(***************************************************************************)
(* The loading-state tracker called directly (loadingState.ts exports).    *)
(***************************************************************************)
TrackedActions == {"getList", "update"}
LoadingPartials ==
  {[isLoading |-> TRUE], [isLoading |-> FALSE, error |-> [error |-> "E1"]],
   [isLoading |-> TRUE, id |-> Num(1)], [sequence |-> 0]}
InitiateExtras == {EmptyObject, [id |-> Num(1)]}
\* a response without (null), with a key, and with the key 0
FinishResponses == {Null, U1, [id |-> 0, name |-> "Z", email |-> "z@x"]}

CanWrite(action) == getLoadingState(store.loadingState, action).sequence < MaxSeq

CallSetLoadingState(action, value) ==
  /\ CanWrite(action)
  /\ store' = storeSetLoadingState(store, action, value)
  /\ lastOp' = [op |-> "setLoadingState", key |-> action, arg |-> value]
  /\ UNCHANGED <<storeKey, storeRegistry, returned, calls, ncalls>>

CallInitiateAction(action, extra) ==
  /\ CanWrite(action)
  /\ store' = [store EXCEPT !.loadingState = initiateAction(@, action, extra)]
  /\ lastOp' = [op |-> "initiateAction", key |-> action, arg |-> extra]
  /\ UNCHANGED <<storeKey, storeRegistry, returned, calls, ncalls>>

CallFinishAction(action, response) ==
  /\ CanWrite(action)
  /\ store' = [store EXCEPT !.loadingState = finishAction(@, action, response)]
  /\ lastOp' = [op |-> "finishAction", key |-> action, arg |-> response]
  /\ UNCHANGED <<storeKey, storeRegistry, returned, calls, ncalls>>

CallActionError(action, error) ==
  /\ CanWrite(action)
  /\ store' = [store EXCEPT !.loadingState = actionError(@, action, error)]
  /\ lastOp' = [op |-> "actionError", key |-> action, arg |-> error]
  /\ UNCHANGED <<storeKey, storeRegistry, returned, calls, ncalls>>

NextLoading ==
  \E action \in TrackedActions :
    \/ \E value \in LoadingPartials : CallSetLoadingState(action, value)
    \/ \E extra \in InitiateExtras : CallInitiateAction(action, extra)
    \/ \E response \in FinishResponses : CallFinishAction(action, response)
    \/ \E error \in ErrorValues : CallActionError(action, error)

SpecLoading == Init /\ [][NextLoading]_vars

\* the entries written through initiateAction, finishAction and actionError only
NextTransitions ==
  \E action \in TrackedActions :
    \/ \E extra \in InitiateExtras : CallInitiateAction(action, extra)
    \/ \E response \in FinishResponses : CallFinishAction(action, response)
    \/ \E error \in ErrorValues : CallActionError(action, error)

SpecTransitions == Init /\ [][NextTransitions]_vars

(***************************************************************************)
(* The record setters of the store called directly (store.getState()).     *)
(***************************************************************************)
Lists == {<<>>, <<U1, U2>>, <<U1b>>}
PatchLists == {<<[id |-> 1, name |-> "C"]>>,
               <<[id |-> 2, email |-> "b@x"], [id |-> 3, name |-> "C"]>>}
SubStates == {[filter |-> "done"], [page |-> 2],
              [sort |-> [by |-> "name", dir |-> "asc"]], [sort |-> [by |-> "id"]]}

CallSetList(list) ==
  /\ store' = setList(store, config.byKey, list)
  /\ lastOp' = [op |-> "setList", arg |-> list]
  /\ UNCHANGED <<storeKey, storeRegistry, returned, calls, ncalls>>

CallPatchList(list) ==
  /\ store' = patchList(store, config.byKey, list)
  /\ lastOp' = [op |-> "patchList", arg |-> list]
  /\ UNCHANGED <<storeKey, storeRegistry, returned, calls, ncalls>>

CallSetInstance(instance) ==
  /\ store.count < MaxCount
  /\ store' = setInstance(store, config.byKey, instance)
  /\ lastOp' = [op |-> "setInstance", arg |-> instance]
  /\ UNCHANGED <<storeKey, storeRegistry, returned, calls, ncalls>>

CallUpdateInstance(instance) ==
  /\ store' = updateInstance(store, config.byKey, instance)
  /\ lastOp' = [op |-> "updateInstance", arg |-> instance]
  /\ UNCHANGED <<storeKey, storeRegistry, returned, calls, ncalls>>

CallDeleteInstance(instance) ==
  /\ store' = deleteInstance(store, config.byKey, instance)
  /\ lastOp' = [op |-> "deleteInstance", arg |-> instance]
  /\ UNCHANGED <<storeKey, storeRegistry, returned, calls, ncalls>>

CallSetCount(count) ==
  /\ store' = setCount(store, count)
  /\ lastOp' = [op |-> "setCount", arg |-> Num(count)]
  /\ UNCHANGED <<storeKey, storeRegistry, returned, calls, ncalls>>

CallSetState(subState) ==
  /\ store' = setState(store, subState)
  /\ lastOp' = [op |-> "setState", arg |-> subState]
  /\ UNCHANGED <<storeKey, storeRegistry, returned, calls, ncalls>>

NextStore ==
  \/ \E list \in Lists : CallSetList(list)
  \/ \E list \in PatchLists : CallPatchList(list)
  \/ \E instance \in Users : CallSetInstance(instance)
  \/ \E instance \in Users : CallUpdateInstance(instance)
  \/ \E instance \in Users : CallDeleteInstance(instance)
  \/ \E count \in 0..MaxCount : CallSetCount(count)
  \/ \E subState \in SubStates : CallSetState(subState)

SpecStore == Init /\ [][NextStore]_vars

\* all the setters of the store, setLoadingState included
SetterPartials == {[isLoading |-> TRUE]}

NextSetters ==
  \/ NextStore
  \/ \E action \in TrackedActions : \E value \in SetterPartials :
       CallSetLoadingState(action, value)

SpecSetters == Init /\ [][NextSetters]_vars

(***************************************************************************)
(* createStoreRegistry: getOrCreateStore.                                  *)
(***************************************************************************)
EntityKeys == {"users", "notes", "roles"}
RawConfigs ==
  {UsersConfig,
   [axios |-> Fn("axios"), route |-> StrRoute(<<"/", "notes", "/">>), id |-> "slug"],
   [axios |-> Fn("axios"), route |-> StrRoute(<<"/", "users">>),
    state |-> [filter |-> "none"], actions |-> [getList |-> JsTrue]]}

\* the store created for a key: a new object (uid), its config and its initial zustand state
NewStore(uid, key, rawConfig) ==
  [uid |-> uid, key |-> key, config |-> validateConfig(rawConfig),
   initial |-> [record |-> Null, count |-> 0, loadingState |-> EmptyObject,
                state |-> IF "state" \in DOMAIN rawConfig THEN rawConfig.state ELSE Undefined]]

\* getOrCreateStore that builds a store for every call
getOrCreateStore_always(registry, key, rawConfig) ==
  (key :> NewStore(Cardinality(DOMAIN registry) + 1, key, rawConfig)) @@ registry

\* the registry after getOrCreateStore(key, rawConfig); the call returns its entry for key
getOrCreateStore(registry, key, rawConfig) ==
  IF key \notin DOMAIN registry
    THEN (key :> NewStore(Cardinality(DOMAIN registry) + 1, key, rawConfig)) @@ registry
    ELSE registry

CallGetOrCreateStore(key, rawConfig) ==
  /\ storeRegistry' = getOrCreateStore(storeRegistry, key, rawConfig)
  /\ returned' = storeRegistry'[key]
  /\ lastOp' = [op |-> "getOrCreateStore", key |-> key, arg |-> rawConfig]
  /\ UNCHANGED <<storeKey, store, calls, ncalls>>

NextRegistry == \E key \in EntityKeys : \E rawConfig \in RawConfigs : CallGetOrCreateStore(key, rawConfig)

SpecRegistry == Init /\ [][NextRegistry]_vars

(***************************************************************************)
(* The configuration validator, the request url and the operations surface *)
(* of useCrud, applied to configurations drawn in the initial state.       *)
(***************************************************************************)
\* an entry of `actions` that is left out
Absent == [absent |-> TRUE]

\* what a configuration may say for one standard action
ActionSettings ==
  {Absent, JsTrue, JsFalse, [method |-> "put"],
   [route |-> StrRoute(<<"/", "alt">>), onError |-> Fn("actionOnError"),
    callback |-> Fn("actionCallback"), prepare |-> Fn("prepareBody")]}

ActionMaps ==
  {[a \in {n \in StandardActions : f[n] # Absent} |-> f[a]] :
     f \in [StandardActions -> ActionSettings]}

BaseRoutes == {StrRoute(<<"/", "users">>), StrRoute(<<"/", "users", "/">>), Fn("routeFn")}

\* an optional field: left out, or one of the values
Optional(field, values) == {EmptyObject} \cup {field :> v : v \in values}

CustomActionMaps ==
  {[move |-> [route |-> StrRoute(<<"/", "users", "/", "move">>)]],
   [move |-> [route |-> Fn("moveRoute"), method |-> "post", onError |-> Fn("moveOnError")],
    sync |-> [route |-> StrRoute(<<"/", "sync">>), callback |-> Fn("onSync"),
              prepare |-> Fn("prepareSync")]]}

\* every combination of entries of `actions`, and every combination of the other fields
ConfigInputs ==
  {Spread([axios |-> Fn("axios"), route |-> r, onError |-> Fn("onError")], [actions |-> am]) :
     r \in {StrRoute(<<"/", "users">>), Fn("routeFn")}, am \in ActionMaps}
  \cup
  {Spread(Spread(Spread(Spread(Spread(Spread([axios |-> Fn("axios"), route |-> r],
       id), state), onError), includeRecord), custom), actions) :
     r \in BaseRoutes,
     id \in Optional("id", {"slug"}),
     state \in Optional("state", {[filter |-> "all"]}),
     onError \in Optional("onError", {Fn("onError")}),
     includeRecord \in Optional("includeRecord", {TRUE}),
     custom \in Optional("customActions", CustomActionMaps),
     actions \in Optional("actions", {[getList |-> JsTrue, update |-> [method |-> "put"]]})}

\* the payloads a url is built for
RoutePayloads == {U1, N1b, Num(2), Num(0), Undefined}

\* a list that is null for an empty record as well
list_emptyIsNull(s) ==
  IF s.record = Null \/ DOMAIN s.record = {} THEN Null
  ELSE [values |-> {s.record[k] : k \in DOMAIN s.record}]

\* list: record ? Object.values(record) : null (the values as a set)
list(s) == IF s.record = Null THEN Null ELSE [values |-> {s.record[k] : k \in DOMAIN s.record}]

\* the object useCrud returns for a store of configuration `validated` and state s
useCrudOutput(validated, s) ==
  Spread(Spread(Spread(Spread(
    [list |-> list(s), setList |-> Fn("setList"), count |-> Num(s.count)],
    IF validated.includeRecord THEN [record |-> s.record] ELSE EmptyObject),
    IF validated.state # Null /\ validated.state # Undefined
      THEN [state |-> s.state, setState |-> Fn("setState")] ELSE EmptyObject),
    [a \in (DOMAIN validated.actions) \cap StandardActions |-> Fn(a)]),
    [c \in DOMAIN validated.customActions |-> Fn(c)])

InitConfig ==
  /\ storeKey = "users"
  /\ store = InitialStore
  /\ storeRegistry = EmptyObject
  /\ returned = Undefined
  /\ calls = [c \in Slots |-> IdleCall]
  /\ ncalls = 0
  /\ \E rawConfig \in ConfigInputs : lastOp = [op |-> "input", arg |-> rawConfig]

CallValidateConfig ==
  /\ lastOp.op = "input"
  /\ returned' = validateConfig(lastOp.arg)
  /\ lastOp' = [op |-> "validateConfig", arg |-> lastOp.arg]
  /\ UNCHANGED <<storeKey, store, storeRegistry, calls, ncalls>>

\* useCrud(store) for the store just created from the configuration
CallUseCrud ==
  /\ lastOp.op = "validateConfig"
  /\ returned' = useCrudOutput(returned, InitialStoreOf(lastOp.arg))
  /\ lastOp' = [op |-> "useCrud", arg |-> lastOp.arg]
  /\ UNCHANGED <<storeKey, store, storeRegistry, calls, ncalls>>

\* the request an enabled standard action or a custom action builds for a payload
CallGetAxiosConfig(actionKey, customAction, data) ==
  /\ lastOp.op = "validateConfig"
  /\ IF actionKey = "custom" THEN customAction \in DOMAIN returned.customActions
     ELSE customAction = "" /\ actionKey \in DOMAIN returned.actions
  /\ LET d == IF actionKey = "custom" /\ customAction # ""
                THEN returned.customActions[customAction]
                ELSE returned.actions[actionKey]
     IN returned' = getAxiosConfig(d.method, d.route, Undefined,
                                   IF actionKey = "getList" THEN Undefined ELSE data,
                                   Field(d, "prepare"))
  /\ lastOp' = [op |-> "getAxiosConfig", arg |-> lastOp.arg, actionKey |-> actionKey,
                customAction |-> customAction, data |-> data]
  /\ UNCHANGED <<storeKey, store, storeRegistry, calls, ncalls>>

NextConfig ==
  \/ CallValidateConfig
  \/ CallUseCrud
  \/ \E actionKey \in StandardActions \cup {"custom"} :
       \E customAction \in {"", "move", "sync"} : \E data \in RoutePayloads :
         CallGetAxiosConfig(actionKey, customAction, data)

SpecConfig == InitConfig /\ [][NextConfig]_vars

(***************************************************************************)
(* Properties.                                                             *)
(***************************************************************************)
\* the name of the action an activation belongs to: the custom action's configured
\* name for a custom action, else the standard action's name
ActionName(call) == IF call.actionKey = "custom" THEN call.customAction ELSE call.actionKey

\* the Loading-State Entry of an action name in a store state
Entry(s, name) == getLoadingState(s.loadingState, name)

\* activation c is invoked in this step
Invoked(c) == calls[c].pc = "idle" /\ calls'[c].pc # "idle"

\* C1: an action callable invoked while the Loading-State Entry of its action has
\* isLoading = true issues no transport call, leaves the whole store (Collection, Count,
\* every Loading-State Entry and its sequence) unchanged, fires no callback or error
\* handler and resolves with no value -- for standard and for custom actions.
C1_SingleFlightGuard ==
  [][\A c \in Slots :
       (Invoked(c) /\ Entry(store, ActionName(calls'[c])).isLoading)
         => /\ store' = store
            /\ calls'[c].pc = "done"
            /\ calls'[c].log = <<>>
            /\ calls'[c].result = Fulfilled(Undefined)]_vars

\* C2: at most one transport call is in flight at any time for each action name.
C2_OneInFlightPerAction ==
  \A c1, c2 \in Slots :
    (/\ calls[c1].pc = "requesting"
     /\ calls[c2].pc = "requesting"
     /\ ActionName(calls[c1]) = ActionName(calls[c2])) => c1 = c2

\* C3: when the transport call of an action rejects with e, the Collection and Count
\* are left as they were, the Loading-State Entry of that action gets isLoading = false,
\* error = e and response = null, and the descriptor's error handler and then the
\* call-site error handler (each if present) are invoked exactly once with e.
C3_RejectionHandled ==
  [][\A c \in Slots :
       /\ (calls[c].pc = "requesting" /\ calls'[c].pc = "failed")
            => /\ store'.record = store.record
               /\ store'.count = store.count
               /\ ~Entry(store', ActionName(calls[c])).isLoading
               /\ Entry(store', ActionName(calls[c])).error = calls'[c].error
               /\ Entry(store', ActionName(calls[c])).response = Null
       /\ (calls[c].pc = "failed" /\ calls'[c].pc = "done")
            => /\ store' = store
               /\ calls'[c].log =
                    (IF config.onError # Null
                       THEN <<[fn |-> config.onError.fn, arg |-> calls[c].error]>> ELSE <<>>)
                    \o (IF calls[c].args.onError
                          THEN <<[fn |-> "callerOnError", arg |-> calls[c].error]>> ELSE <<>>)]_vars

\* C4: the promise returned by an action callable never rejects.
C4_PromiseNeverRejects == \A c \in Slots : calls[c].result.state # "rejected"

\* C5: no Loading-State Entry stays at isLoading = true once the call that set it has
\* had its transport call settled: an entry that is loading belongs to a call that is
\* still between its initiate and its finish or fail.
C5_NoStuckLoading ==
  \A name \in DOMAIN store.loadingState :
    store.loadingState[name].isLoading
      => \E c \in Slots :
           /\ ActionName(calls[c]) = name
           /\ calls[c].pc \in {"initiated", "requesting", "sleeping", "setCount", "finish"}

\* C6: getOrCreateStore returns the registry's one Store of the key; a Store, once
\* created, is never replaced, whatever configuration later calls pass; its resolved
\* configuration and initial local state are those of the call that created it (the
\* first for its key); Stores of different keys are different objects.
C6_FirstWriterWins ==
  /\ [](returned # Undefined
          => lastOp.key \in DOMAIN storeRegistry /\ returned = storeRegistry[lastOp.key])
  /\ [](\A k1, k2 \in DOMAIN storeRegistry :
          k1 # k2 => storeRegistry[k1].uid # storeRegistry[k2].uid)
  /\ [][\A k \in EntityKeys :
          IF k \in DOMAIN storeRegistry
            THEN k \in DOMAIN storeRegistry' /\ storeRegistry'[k] = storeRegistry[k]
            ELSE k \in DOMAIN storeRegistry'
                   => /\ lastOp'.key = k
                      /\ storeRegistry'[k].config = validateConfig(lastOp'.arg)
                      /\ storeRegistry'[k].initial.state =
                           (IF "state" \in DOMAIN lastOp'.arg
                              THEN lastOp'.arg.state ELSE Undefined)]_vars

\* C6 witness: the last call named a key whose Store was created from another
\* configuration, and a Store of another key exists as well.
C6_Witness ==
  /\ lastOp.op = "getOrCreateStore"
  /\ lastOp.key \in DOMAIN storeRegistry
  /\ returned = storeRegistry[lastOp.key]
  /\ returned.config # validateConfig(lastOp.arg)
  /\ Cardinality(DOMAIN storeRegistry) >= 2

\* the sequence rule of one loading-state write to action a in this step
SequenceStep(a) ==
  /\ a \in DOMAIN store'.loadingState
  /\ store'.loadingState[a].sequence =
       (IF a \in DOMAIN store.loadingState THEN store.loadingState[a].sequence + 1 ELSE 0)

C8_UpdateMerges ==
  [][(/\ lastOp'.op = "updateInstance"
      /\ store.record # Null
      /\ KeyOf(lastOp'.arg.id) \in DOMAIN store.record)
       => LET k == KeyOf(lastOp'.arg.id)
              old == store.record[k]
              new == lastOp'.arg
          IN /\ k \in DOMAIN store'.record
             /\ DOMAIN store'.record[k] = (DOMAIN old) \cup (DOMAIN new)
             /\ \A f \in DOMAIN store'.record[k] :
                  store'.record[k][f] = (IF f \in DOMAIN new THEN new[f] ELSE old[f])]_vars

\* C9: when a getList call resolves, the Collection holds exactly the returned records
\* under their keys and Count is the envelope's count, or the array's length for a
\* plain array; the promise resolves with the plain record array.
C9_GetListReplaces ==
  [][\A c \in Slots :
       (calls[c].actionKey = "getList" /\ calls[c].pc = "callbacks" /\ calls'[c].pc = "done")
         => LET data == calls[c].response
                results == IF "items" \in DOMAIN data THEN data.items ELSE data.results
            IN /\ store'.record # Null
               /\ DOMAIN store'.record = {KeyOf(results[i].id) : i \in DOMAIN results}
               /\ \A i \in DOMAIN results : store'.record[KeyOf(results[i].id)] = results[i]
               /\ store'.count = (IF "count" \in DOMAIN data THEN data.count ELSE Len(results))
               /\ calls'[c].result = Fulfilled([items |-> results])]_vars

\* C9 witness: a create stored the record of key 2, then a getList resolved with an
\* envelope that holds only the record of key 1 and a count of 10.
C9_Witness ==
  /\ calls[1].actionKey = "create" /\ calls[1].result = Fulfilled(U2)
  /\ calls[2].actionKey = "getList" /\ calls[2].result = Fulfilled([items |-> <<U1b>>])
  /\ DOMAIN store.record = {"1"}
  /\ store.count = 10

\* both of the first two invocations are creates that succeeded with the same key
TwoCreatesOfOneKey ==
  /\ ncalls = 2
  /\ \A c \in {1, 2} : calls[c].actionKey = "create" /\ calls[c].pc = "done"
                         /\ calls[c].result.state = "fulfilled"
                         /\ calls[c].result.value # Undefined
  /\ calls[1].result.value.id = calls[2].result.value.id

\* C10: a successful create stores the returned record under its key, leaves the other
\* records alone and increments Count by 1 if and only if the key was not in the
\* Collection; two successive creates of the same key increment Count once in total.
C10_CreateCountsOnce ==
  /\ [][\A c \in Slots :
          (calls[c].actionKey = "create" /\ calls[c].pc = "sleeping" /\ calls'[c].pc = "finish")
            => LET r == calls[c].response
                   k == KeyOf(r.id)
                   old == IF store.record = Null THEN {} ELSE DOMAIN store.record
               IN /\ DOMAIN store'.record = old \cup {k}
                  /\ store'.record[k] = r
                  /\ \A j \in old \ {k} : store'.record[j] = store.record[j]
                  /\ store'.count = store.count + (IF k \in old THEN 0 ELSE 1)]_vars
  /\ [](TwoCreatesOfOneKey => store.count = 1)

\* C10 witness: two successive creates of the same key have succeeded.
C10_Witness == TwoCreatesOfOneKey /\ store.count = 1 /\ DOMAIN store.record = {"2"}

\* the keys of the Collection of a store state (none before the first write)
Keys(s) == IF s.record = Null THEN {} ELSE DOMAIN s.record

\* activation c applies the Collection mutation of action a in this step
Mutates(c, a) ==
  calls[c].actionKey = a /\ calls[c].pc = "sleeping" /\ calls'[c].pc # "sleeping"

\* C11: a successful delete removes the record stored under the key of the request
\* payload and decrements Count by 1, never below 0; when that key is not in the
\* Collection, the Collection and Count are left unchanged and the call does not fail.
C11_DeleteRemoves ==
  [][\A c \in Slots :
       Mutates(c, "delete")
         => LET k == KeyOf(calls[c].data[config.byKey])
            IN /\ calls'[c].pc = "finish"
               /\ IF k \in Keys(store)
                    THEN /\ Keys(store') = Keys(store) \ {k}
                         /\ \A j \in Keys(store') : store'.record[j] = store.record[j]
                         /\ store'.count = (IF store.count > 0 THEN store.count - 1 ELSE 0)
                    ELSE /\ store'.record = store.record
                         /\ store'.count = store.count]_vars

\* C12: a successful get stores the returned record under its key, leaves the other
\* records alone and leaves Count unchanged, whether or not the key was in the Collection.
C12_GetKeepsCount ==
  [][\A c \in Slots :
       Mutates(c, "get")
         => LET r == calls[c].response
                k == KeyOf(r[config.byKey])
            IN /\ Keys(store') = Keys(store) \cup {k}
               /\ store'.record[k] = r
               /\ \A j \in Keys(store) \ {k} : store'.record[j] = store.record[j]
               /\ store'.count = store.count]_vars

\* C13: a successful update whose returned record has a key that is not in the
\* Collection leaves the Collection unchanged and does not fail.
C13_UpdateAbsentSkipped ==
  [][\A c \in Slots :
       (Mutates(c, "update") /\ KeyOf(calls[c].response[config.byKey]) \notin Keys(store))
         => /\ store'.record = store.record
            /\ calls'[c].pc = "finish"]_vars

\* C14: no step of a custom action's call changes the Collection, Count or the local
\* state of the store: from its invocation to its return only loading state changes.
C14_CustomNoMutation ==
  [][\A c \in Slots :
       (calls'[c] # calls[c] /\ calls'[c].actionKey = "custom")
         => /\ store'.record = store.record
            /\ store'.count = store.count
            /\ store'.state = store.state]_vars

\* C14 witness: a custom action has succeeded on a store that holds a record.
C14_Witness ==
  /\ calls[2].actionKey = "custom"
  /\ calls[2].result = Fulfilled([ok |-> TRUE])
  /\ Keys(store) = {"2"}
  /\ store.count = 1

\* C15 (for a call made alone on a new store): when the call has ended with the
\* Loading-State Entry of its action in the failed state (isLoading = false, error
\* populated), whatever raised the failure, the Collection and Count are those the store
\* had when the call was initiated: null and 0.
C15_NoPartialMutationOnFailure ==
  (/\ ncalls = 1
   /\ calls[1].pc \in {"failed", "done"}
   /\ ~Entry(store, ActionName(calls[1])).isLoading
   /\ Entry(store, ActionName(calls[1])).error # Null)
    => store.record = Null /\ store.count = 0

\* C16: from the resolution of a call's transport call to its finish transition the
\* call does not yield: every store write made in between is made by that call.
C16_NoYieldAfterTransport ==
  [][\A c \in Slots :
       (calls[c].pc \in {"sleeping", "setCount", "finish"} /\ store' # store)
         => calls'[c] # calls[c]]_vars

\* the action names of the store: the enabled standard actions and the custom actions
ActionNames == {ActionName([actionKey |-> k[1], customAction |-> k[2]]) : k \in Callables}

\* C17: a call is dropped only when the Loading-State Entry of its own action is
\* loading, never because an action of another name is in flight, and no step of a call
\* (its initiate, finish or fail) changes the Loading-State Entry of an action of
\* another name.
C17_ActionsIndependent ==
  [][\A c \in Slots :
       /\ (Invoked(c) /\ calls'[c].pc = "done" /\ calls'[c].result = Fulfilled(Undefined))
            => Entry(store, ActionName(calls'[c])).isLoading
       /\ calls'[c] # calls[c]
            => \A b \in ActionNames \ {ActionName(calls'[c])} :
                 /\ (b \in DOMAIN store'.loadingState) = (b \in DOMAIN store.loadingState)
                 /\ Entry(store', b) = Entry(store, b)]_vars

\* the key value of a response, boxed as the loading state holds it, or null
ResponseKey(data) ==
  IF ~Nullish(data) /\ config.id \in DOMAIN data THEN Num(data[config.id]) ELSE Null

\* C18: the finish transition of a successful call leaves the Loading-State Entry of
\* its action with isLoading = false, error = null, response = the normalized response
\* data the call returns, and id = the key field of the response (null without one).
C18_FinishRecordsResponse ==
  [][\A c \in Slots :
       (calls[c].pc # "callbacks" /\ calls'[c].pc = "callbacks")
         => LET data == calls[c].response
                normalized == IF calls[c].actionKey = "getList"
                                THEN [items |-> IF "items" \in DOMAIN data
                                                  THEN data.items ELSE data.results]
                                ELSE data
                entry == Entry(store', ActionName(calls[c]))
            IN /\ ~entry.isLoading
               /\ entry.error = Null
               /\ entry.response = normalized
               /\ entry.id = ResponseKey(normalized)]_vars

\* C19: while an update or delete call is in flight, the id of the Loading-State Entry
\* of that action is the payload's value of the configured key field (config.id).
C19_InFlightIdIsPayloadKey ==
  \A c \in Slots :
    (/\ calls[c].actionKey \in {"update", "delete"}
     /\ calls[c].pc \in {"initiated", "requesting", "sleeping", "finish"})
      => /\ Entry(store, calls[c].actionKey).isLoading
         /\ Entry(store, calls[c].actionKey).id =
              (IF config.id \in DOMAIN calls[c].data
                 THEN Num(calls[c].data[config.id]) ELSE Undefined)

\* the handler invocations a successful call makes: the hook attached to the callable,
\* the descriptor's callback and the call-site callback, each if present, with the data
ExpectedCallbacks(call, data) ==
  LET d == IF call.actionKey = "custom"
             THEN config.customActions[call.customAction]
             ELSE config.actions[call.actionKey]
  IN (IF call.args.sideEffects THEN <<[fn |-> "sideEffects", arg |-> data]>> ELSE <<>>)
       \o (IF "callback" \in DOMAIN d /\ d.callback # Null
             THEN <<[fn |-> d.callback.fn, arg |-> data]>> ELSE <<>>)
       \o (IF call.args.callback THEN <<[fn |-> "callback", arg |-> data]>> ELSE <<>>)

\* C20: on success a call writes the Collection and Count only before its finish
\* transition, makes its finish transition before any callback, and then invokes the
\* hook, the descriptor's callback and the call-site callback, in this order, each
\* exactly once if present and each with the normalized response data (the plain record
\* array for getList), which is also the value the promise resolves with.
C20_SuccessOrder ==
  [][\A c \in Slots :
       /\ (/\ calls'[c] # calls[c]
           /\ (store'.record # store.record \/ store'.count # store.count))
            => calls[c].pc \in {"sleeping", "setCount"} /\ calls'[c].log = <<>>
       /\ (calls[c].pc # "callbacks" /\ calls'[c].pc = "callbacks")
            => /\ calls[c].pc = (IF calls[c].actionKey = "custom" THEN "sleeping" ELSE "finish")
               /\ calls'[c].log = <<>>
               /\ ~Entry(store', ActionName(calls[c])).isLoading
       /\ (calls[c].pc = "callbacks" /\ calls'[c].pc = "done")
            => LET data == calls[c].response
                   normalized == IF calls[c].actionKey = "getList"
                                   THEN [items |-> IF "items" \in DOMAIN data
                                                     THEN data.items ELSE data.results]
                                   ELSE data
               IN /\ store' = store
                  /\ calls'[c].log = ExpectedCallbacks(calls[c], normalized)
                  /\ calls'[c].result = Fulfilled(normalized)
       /\ calls'[c].log # calls[c].log => calls[c].pc \in {"callbacks", "failed"}]_vars

\* C20 witness: a getList that resolved with a {results, count} envelope has called the
\* hook, the descriptor's callback and the call-site callback with the record array.
C20_Witness ==
  \E c \in Slots :
    /\ calls[c].actionKey = "getList"
    /\ calls[c].result = Fulfilled([items |-> <<U1b>>])
    /\ calls[c].log = <<[fn |-> "sideEffects", arg |-> [items |-> <<U1b>>]],
                        [fn |-> "onList", arg |-> [items |-> <<U1b>>]],
                        [fn |-> "callback", arg |-> [items |-> <<U1b>>]]>>
    /\ store.count = 10

\* C21: a function assigned to the `onResponse` property of an action callable is
\* invoked with the response data when a call of that action succeeds.
C21_OnResponseInvoked ==
  [][\A c \in Slots :
       (/\ calls[c].pc = "callbacks" /\ calls'[c].pc = "done"
        /\ "onResponse" \in DOMAIN calls[c].args /\ calls[c].args.onResponse)
         => \E i \in DOMAIN calls'[c].log :
              calls'[c].log[i] = [fn |-> "onResponse", arg |-> calls'[c].result.value]]_vars

\* the configuration drawn for this behaviour, and whether it has just been validated
Raw == lastOp.arg
Validated == lastOp.op = "validateConfig"
Methods == {"get", "post", "put", "patch", "delete"}

\* a descriptor has a method and a route that is not undefined
HasMethodAndRoute(d) ==
  /\ "method" \in DOMAIN d /\ d.method \in Methods
  /\ "route" \in DOMAIN d /\ d.route # Undefined

\* C22: for every configuration that has a route and a transport, every enabled
\* standard action and every custom action of the validated configuration has a method
\* and a route that is not undefined, whatever fields its override object lists.
C22_ActionsHaveMethodAndRoute ==
  Validated
    => /\ \A a \in (DOMAIN returned.actions) \cap StandardActions :
            HasMethodAndRoute(returned.actions[a])
       /\ \A c \in DOMAIN returned.customActions : HasMethodAndRoute(returned.customActions[c])

\* C22 witness: a validated configuration whose update override lists only a method
\* and whose custom action `sync` lists no method.
C22_Witness ==
  /\ Validated
  /\ "actions" \in DOMAIN Raw /\ Raw.actions = [getList |-> JsTrue, update |-> [method |-> "put"]]
  /\ "customActions" \in DOMAIN Raw /\ "sync" \in DOMAIN Raw.customActions
  /\ returned.actions.update.method = "put"
  /\ returned.customActions.sync.method = "get"

\* the standard actions a configuration enables
ExpectedEnabled(rawConfig) ==
  IF "actions" \notin DOMAIN rawConfig THEN {"get", "getList", "create", "update", "delete"}
  ELSE {a \in {"get", "getList", "create", "update", "delete"} :
          /\ a \in DOMAIN rawConfig.actions
          /\ rawConfig.actions[a] # [bool |-> FALSE]}

ExpectedDefault(rawConfig, a, f) ==
  CASE f = "method" ->
         [str |-> CASE a \in {"get", "getList"} -> "get" [] a = "create" -> "post"
                    [] a = "update" -> "patch" [] OTHER -> "delete"]
    [] f = "route" ->
         IF a \in {"getList", "create"} \/ "fn" \in DOMAIN rawConfig.route
           THEN rawConfig.route
           ELSE [fn |-> "detailRoute", route |-> rawConfig.route,
                 id |-> IF "id" \in DOMAIN rawConfig THEN rawConfig.id ELSE "id"]
    [] f = "onError" -> IF "onError" \in DOMAIN rawConfig THEN rawConfig.onError ELSE Null
    [] OTHER -> Null

\* a field of a descriptor, with its method boxed so that any two fields compare
Boxed(d, f) == IF f = "method" THEN [str |-> d[f]] ELSE d[f]

\* C24: the descriptor of an enabled standard action has the default method, route and
\* error handler of that action, except that each field its override object contains
\* has the override's value; no other field is changed.
C24_DefaultsAndOverrides ==
  Validated
    => \A a \in (DOMAIN returned.actions) \cap StandardActions :
         LET d == returned.actions[a]
             given == IF "actions" \in DOMAIN Raw THEN Raw.actions[a] ELSE JsTrue
             override == IF "bool" \in DOMAIN given THEN <<>> ELSE given
         IN /\ {"method", "route", "onError", "callback", "prepare"} \cup DOMAIN override
                 \subseteq DOMAIN d
            /\ \A f \in DOMAIN d :
                 Boxed(d, f) = (IF f \in DOMAIN override THEN Boxed(override, f)
                                ELSE ExpectedDefault(Raw, a, f))

\* C24 witness: update overridden in its method only, on a string base route.
C24_Witness ==
  /\ Validated
  /\ "actions" \in DOMAIN Raw /\ "update" \in DOMAIN Raw.actions
  /\ Raw.actions.update = [method |-> "put"]
  /\ "delete" \in DOMAIN Raw.actions /\ "route" \in DOMAIN Raw.actions.delete
  /\ returned.actions.update.method = "put"
  /\ returned.actions.update.route = [fn |-> "detailRoute", route |-> Raw.route, id |-> "id"]
  /\ returned.actions.delete.method = "delete"
  /\ returned.actions.delete.route = StrRoute(<<"/", "alt">>)

DetailActions == {"get", "update", "delete"}

\* the action's override object lists no route of its own
NoRouteOverride(rawConfig, a) ==
  \/ "actions" \notin DOMAIN rawConfig
  \/ "route" \notin DOMAIN rawConfig.actions[a]

\* the key value of a payload, as text: payload[id], or the payload when it is no object
KeyValue(rawConfig, data) ==
  LET id == IF "id" \in DOMAIN rawConfig THEN rawConfig.id ELSE "id"
  IN IF "num" \in DOMAIN data THEN KeyOf(data.num)
     ELSE IF id \in DOMAIN data THEN KeyOf(data[id]) ELSE "undefined"

EndsWithSlash(base) == Len(base) > 0 /\ base[Len(base)] = "/"

\* C25: for a string base route the detail route of a payload with key value v is
\* base + v + "/" when base ends with "/" and base + "/" + v otherwise; a function
\* base route is kept as the detail route unchanged.
C25_DetailRoute ==
  /\ (/\ lastOp.op = "getAxiosConfig" /\ lastOp.actionKey \in DetailActions
      /\ "str" \in DOMAIN Raw.route /\ NoRouteOverride(Raw, lastOp.actionKey))
       => LET base == Raw.route.str
              v == KeyValue(Raw, lastOp.data)
          IN /\ ~returned.threw
             /\ returned.url = IF EndsWithSlash(base) THEN base \o <<v>> \o <<"/">>
                               ELSE base \o <<"/">> \o <<v>>
  /\ (Validated /\ "fn" \in DOMAIN Raw.route)
       => \A a \in (DOMAIN returned.actions) \cap DetailActions :
            NoRouteOverride(Raw, a) => returned.actions[a].route = Raw.route

\* C25 witness: the url of update for a payload whose configured id field `slug` is 3,
\* on a base route that ends with a slash.
C25_Witness ==
  /\ lastOp.op = "getAxiosConfig" /\ lastOp.actionKey = "update"
  /\ Raw.route = StrRoute(<<"/", "users", "/">>)
  /\ "id" \in DOMAIN Raw /\ Raw.id = "slug"
  /\ lastOp.data = N1b
  /\ returned.url = <<"/", "users", "/", "3", "/">>

\* C26: each custom action of the validated configuration keeps the route it supplied,
\* has method get when it supplied none, and has the global onError as its error
\* handler unless it supplies its own.
C26_CustomActionDefaults ==
  (Validated /\ "customActions" \in DOMAIN Raw)
    => /\ DOMAIN returned.customActions = DOMAIN Raw.customActions
       /\ \A c \in DOMAIN Raw.customActions :
            LET given == Raw.customActions[c]
                d == returned.customActions[c]
            IN /\ d.route = given.route
               /\ d.method = IF "method" \in DOMAIN given THEN given.method ELSE "get"
               /\ d.onError = IF "onError" \in DOMAIN given THEN given.onError
                              ELSE IF "onError" \in DOMAIN Raw THEN Raw.onError
                              ELSE Null

\* C26 witness: a validated configuration with a global onError in which `move` supplies
\* method and onError and `sync` supplies neither.
C26_Witness ==
  /\ Validated
  /\ "onError" \in DOMAIN Raw
  /\ "customActions" \in DOMAIN Raw /\ DOMAIN Raw.customActions = {"move", "sync"}
  /\ returned.customActions.move.onError = Fn("moveOnError")
  /\ returned.customActions.move.method = "post"
  /\ returned.customActions.sync.onError = Raw.onError
  /\ returned.customActions.sync.method = "get"

\* the output has the field, with a value that is not undefined
Present(output, f) == f \in DOMAIN output /\ output[f] # Undefined

\* C29: the output of useCrud contains `state` and `setState` if and only if the store
\* was configured with an initial `state`; without it both are absent (undefined).
C29_StateOnlyWhenConfigured ==
  lastOp.op = "useCrud"
    => /\ "state" \in DOMAIN Raw => Present(returned, "state") /\ Present(returned, "setState")
       /\ "state" \notin DOMAIN Raw
            => ~Present(returned, "state") /\ ~Present(returned, "setState")

\* the fields the partials of a list give to the record of key k: a later partial wins
RECURSIVE Patched(_, _, _)
Patched(stored, k, partials) ==
  IF partials = <<>> THEN stored
  ELSE LET item == Head(partials)
           next == IF "id" \in DOMAIN item /\ KeyOf(item.id) = k
                     THEN [f \in (DOMAIN stored) \cup (DOMAIN item) |->
                             IF f \in DOMAIN item THEN item[f] ELSE stored[f]]
                     ELSE stored
       IN Patched(next, k, Tail(partials))

\* C27: patchList(partials) merges each partial into the stored record of the same key,
\* keeping the stored fields the partial does not mention; a partial whose key is not
\* stored is ignored: the key set, every record not mentioned and count are unchanged.
C27_PatchListMerges ==
  [][lastOp'.op = "patchList"
       => /\ store'.count = store.count
          /\ store.record = Null => store'.record = Null
          /\ store.record # Null
               => /\ DOMAIN store'.record = DOMAIN store.record
                  /\ \A k \in DOMAIN store.record :
                       store'.record[k] = Patched(store.record[k], k, lastOp'.arg)]_vars

\* C27 witness: after patching the email of record 2 together with a partial of key 3,
\* which is not stored, record 2 has the new email and its old name, and no key 3.
C27_Witness ==
  /\ lastOp.op = "patchList"
  /\ lastOp.arg = <<[id |-> 2, email |-> "b@x"], [id |-> 3, name |-> "C"]>>
  /\ store.record # Null
  /\ DOMAIN store.record = {"1", "2"}
  /\ store.record["2"] = [id |-> 2, name |-> U2.name, email |-> "b@x"]
  /\ store.record["1"] \in {U1, U1b}

\* C28: setState(partial) replaces exactly the top-level keys of partial, each by the
\* value partial gives it, and leaves every other key of the local state as it was,
\* whatever setState calls came before.
C28_SetStateShallow ==
  [][lastOp'.op = "setState"
       => LET old == IF Nullish(store.state) THEN <<>> ELSE store.state
              partial == lastOp'.arg
          IN /\ DOMAIN store'.state = (DOMAIN old) \cup (DOMAIN partial)
             /\ \A k \in DOMAIN store'.state :
                  store'.state[k] = IF k \in DOMAIN partial THEN partial[k] ELSE old[k]
             /\ store'.record = store.record /\ store'.count = store.count]_vars

\* C28 witness: after several setState calls, the last one of a `sort` that has only
\* `by`, the state has that `sort` without the earlier `dir`, and the other keys as set.
C28_Witness ==
  /\ lastOp.op = "setState" /\ lastOp.arg = [sort |-> [by |-> "id"]]
  /\ DOMAIN store.state = {"filter", "page", "sort"}
  /\ store.state.sort = [by |-> "id"]
  /\ store.state.filter = "done" /\ store.state.page = 2

\* C30: list() is null until the first setList or setInstance; a setList or setInstance
\* makes it non-null; once non-null it never becomes null again, and deleting the last
\* record gives the empty list.
C30_ListNullUntilStored ==
  [][/\ (list(store) = Null /\ list(store') # Null)
          => lastOp'.op \in {"setList", "setInstance"}
     /\ lastOp'.op \in {"setList", "setInstance"} => list(store') # Null
     /\ list(store) # Null => list(store') # Null
     /\ (/\ lastOp'.op = "deleteInstance" /\ store.record # Null
         /\ DOMAIN store.record = {ItemKey(lastOp'.arg, config.byKey)})
          => list(store') = [values |-> {}]]_vars

\* C30 witness: a deleteInstance has left the record empty, and the list is the empty
\* list.
C30_Witness ==
  /\ lastOp.op = "deleteInstance"
  /\ store.record # Null /\ DOMAIN store.record = {}
  /\ store.count = 0
  /\ list(store) = [values |-> {}]

\* the entry a loading-state operation has just written, and the one it found
Written == store'.loadingState[lastOp'.key]
Found == getLoadingState(store.loadingState, lastOp'.key)

\* C31: initiate, finish and fail overwrite an entry whatever it held: initiate(extra)
\* gives isLoading = true, error = null, response = null and id = extra.id or null;
\* finish(response) gives isLoading = false, error = null, the response or null, and
\* id = the response's key field if it has one, else null; fail(e) gives
\* isLoading = false, error = e, response = null and the id the entry had.
C31_TransitionsOverwrite ==
  [][/\ lastOp'.op = "initiateAction"
          => /\ Written.isLoading = TRUE /\ Written.error = Null /\ Written.response = Null
             /\ Written.id = IF "id" \in DOMAIN lastOp'.arg THEN lastOp'.arg.id ELSE Null
     /\ lastOp'.op = "finishAction"
          => /\ Written.isLoading = FALSE /\ Written.error = Null
             /\ Written.response = lastOp'.arg
             /\ Written.id = IF lastOp'.arg # Null /\ "id" \in DOMAIN lastOp'.arg
                               THEN [num |-> lastOp'.arg.id] ELSE Null
     /\ lastOp'.op = "actionError"
          => /\ Written.isLoading = FALSE /\ Written.error = lastOp'.arg
             /\ Written.response = Null
             /\ Written.id = Found.id]_vars

\* the request just built, when building it did not throw
Built == lastOp.op = "getAxiosConfig" /\ ~returned.threw
HasBody == "data" \in DOMAIN returned

\* what the configuration says for the action of the request: the override object of a
\* standard action (none for `true`), or the custom action's entry
GivenDescriptor ==
  IF lastOp.actionKey = "custom" THEN Raw.customActions[lastOp.customAction]
  ELSE IF "actions" \notin DOMAIN Raw THEN <<>>
  ELSE IF "bool" \in DOMAIN Raw.actions[lastOp.actionKey] THEN <<>>
  ELSE Raw.actions[lastOp.actionKey]

\* the body for the payload: the transform's result when the descriptor has one
ExpectedBody ==
  IF "prepare" \in DOMAIN GivenDescriptor
    THEN [prepared |-> lastOp.data, by |-> GivenDescriptor.prepare.fn,
          params |-> [undefined |-> TRUE]]
    ELSE lastOp.data

WrittenKeys ==
  {k \in DOMAIN store'.loadingState :
     k \notin DOMAIN store.loadingState \/ store'.loadingState[k] # store.loadingState[k]}

\* C33: every loading-state access of one call has the same key, the action's own name
\* (for a custom action its configured name): the guard drops the call exactly when the
\* entry of that name is loading, and initiate, finish and fail write that entry only.
C33_OneEntryPerCall ==
  [][\A c \in Slots :
       /\ Invoked(c)
            => (Entry(store, ActionName(calls'[c])).isLoading
                  <=> (/\ calls'[c].pc = "done" /\ store' = store
                       /\ calls'[c].result = Fulfilled(Undefined)))
       /\ calls'[c] # calls[c] => WrittenKeys \subseteq {ActionName(calls'[c])}]_vars

\* the transport call of activation c is issued in this step
Issued(c) == calls[c].pc = "initiated" /\ calls'[c].pc = "requesting"

\* the positions of an activation whose transport call has resolved
ResolvedPcs == {"sleeping", "setCount", "finish", "callbacks"}

\* C34: when the transport call of an action is issued, the action's Loading-State
\* Entry has isLoading = true, and every Collection or Count write of a call happens
\* after its transport call has resolved.
C34_InitiateBeforeTransport ==
  [][\A c \in Slots :
       /\ Issued(c) => Entry(store, ActionName(calls[c])).isLoading
       /\ (calls'[c] # calls[c] /\ (store'.record # store.record \/ store'.count # store.count))
            => calls[c].pc \in ResolvedPcs]_vars

\* C35: when entries are written only through initiate, finish and fail, every entry
\* has: isLoading = true implies error = null and response = null, and error not null
\* implies isLoading = false and response = null.
C35_EntryWellFormed ==
  \A a \in DOMAIN store.loadingState :
    LET entry == store.loadingState[a]
    IN /\ entry.isLoading => (entry.error = Null /\ entry.response = Null)
       /\ entry.error # Null => (~entry.isLoading /\ entry.response = Null)

\* C35 witness: a fail has been written over an entry that an earlier finish had given
\* an id and a response.
C35_Witness ==
  /\ lastOp.op = "actionError"
  /\ store.loadingState[lastOp.key].sequence >= 1
  /\ store.loadingState[lastOp.key].error = lastOp.arg
  /\ store.loadingState[lastOp.key].id = Num(1)
  /\ ~store.loadingState[lastOp.key].isLoading

\* C36: while the Collection is null, updateInstance, deleteInstance and patchList
\* change nothing: the Collection stays null and Count is as it was.
C36_NoOpOnNull ==
  [][(/\ store.record = Null
      /\ lastOp'.op \in {"updateInstance", "deleteInstance", "patchList"})
       => store' = store]_vars

\* C36 witness: deleteInstance was called on a null Collection whose Count had been set,
\* and both are as they were.
C36_Witness ==
  /\ lastOp.op = "deleteInstance"
  /\ store.record = Null
  /\ store.count = MaxCount

\* C37: every record stored in the Collection under key k has k as the value of its
\* key field, after any sequence of setList, setInstance, updateInstance, patchList and
\* deleteInstance with records that carry the key field.
C37_KeyBinding ==
  store.record # Null
    => \A k \in DOMAIN store.record :
         /\ config.byKey \in DOMAIN store.record[k]
         /\ KeyOf(store.record[k][config.byKey]) = k

\* C37 witness: two records are stored, the last operation an updateInstance of a key
\* that was stored before it.
C37_Witness ==
  /\ lastOp.op = "updateInstance"
  /\ store.record # Null
  /\ DOMAIN store.record = {"1", "2"}
  /\ store.record["1"] = U1b /\ lastOp.arg = U1b

\* building the request of the call throws: its route function throws, or it has a
\* payload and its request-body transform throws
ThrowsWhileBuilding(call) ==
  LET d == IF call.actionKey = "custom" THEN config.customActions[call.customAction]
           ELSE config.actions[call.actionKey]
  IN \/ "fn" \in DOMAIN d.route /\ d.route.fn = "throwingRoute"
     \/ /\ call.actionKey # "getList"
        /\ call.data \notin {Undefined, Null}
        /\ "fn" \in DOMAIN d.prepare /\ d.prepare.fn = "throwingPrepare"

\* C38: when a route function or a request-body transform throws while the request is
\* built, no transport call is issued and the store, the action's Loading-State Entry
\* and its sequence included, is exactly as it was before the call.
C38_BuildThrowsBeforeInitiate ==
  [][\A c \in Slots :
       (Invoked(c) /\ ThrowsWhileBuilding(calls'[c]))
         => /\ store' = store
            /\ calls'[c].pc = "done"
            /\ calls'[c].request = Undefined]_vars

\* C38 witness: a create whose transform threw has returned while the store holds what
\* an earlier getList stored, and there is no Loading-State Entry of create.
C38_Witness ==
  \E c \in Slots :
    /\ calls[c].pc = "done" /\ calls[c].actionKey = "create"
    /\ calls[c].result = Rejected(TypeError)
    /\ store.record # Null
    /\ "getList" \in DOMAIN store.loadingState
    /\ "create" \notin DOMAIN store.loadingState

\* the slices of the store a step leaves as they were
SameRecord == store'.record = store.record
SameCount == store'.count = store.count
SameLoadingState == store'.loadingState = store.loadingState
SameState == store'.state = store.state

\* C39: each setter changes only its own slice: setLoadingState(a, ...) only entry a of
\* the loading-state map; setList, patchList and updateInstance only the Collection;
\* setCount only Count; setInstance and deleteInstance only the Collection and Count;
\* setState only the local state.
C39_SettersKeepOtherSlices ==
  [][/\ lastOp'.op = "setLoadingState"
          => /\ SameRecord /\ SameCount /\ SameState
             /\ DOMAIN store'.loadingState = (DOMAIN store.loadingState) \cup {lastOp'.key}
             /\ \A k \in (DOMAIN store.loadingState) \ {lastOp'.key} :
                  store'.loadingState[k] = store.loadingState[k]
     /\ lastOp'.op \in {"setList", "patchList", "updateInstance"}
          => SameCount /\ SameLoadingState /\ SameState
     /\ lastOp'.op = "setCount" => SameRecord /\ SameLoadingState /\ SameState
     /\ lastOp'.op \in {"setInstance", "deleteInstance"} => SameLoadingState /\ SameState
     /\ lastOp'.op = "setState" => SameRecord /\ SameCount /\ SameLoadingState]_vars

\* C39 witness: setList of two records on a store whose Count is 0, whose local state
\* has been set and which has two Loading-State Entries.
C39_Witness ==
  /\ lastOp.op = "setList" /\ lastOp.arg = <<U1, U2>>
  /\ store.record # Null /\ DOMAIN store.record = {"1", "2"}
  /\ store.count = 0
  /\ DOMAIN store.loadingState = TrackedActions
  /\ "page" \in DOMAIN store.state

====
